---- MODULE Spec2Model ----
(***************************************************************************)
(* Push-to-talk speech-to-text tool (app/whisper_hotkey.py).               *)
(*                                                                         *)
(* The model has six parts:                                                *)
(*   - TextProcessor: the text clean-up pipeline, on strings represented   *)
(*     as sequences of one-character strings;                              *)
(*   - the keyboard: the physical left Ctrl key, the global pynput         *)
(*     Listener installed by main() and the keyboard.Events() observer     *)
(*     opened inside record_audio();                                       *)
(*   - on_activate / record_audio / transcribe_file, one step per          *)
(*     statement group, run on the listener thread (Spec, and FairSpec     *)
(*     with the scheduling of the threads);                                *)
(*   - TextProcessor.process on its own, one step per stage, for both      *)
(*     TextProcessor classes (TextSpec), and beside a reload_config        *)
(*     running on another thread (ReloadSpec);                             *)
(*   - reload_config reading WORD_REPLACEMENTS entry by entry (ParseSpec); *)
(*   - main(), log_message, the message queues and the user interface in   *)
(*     its terminal, window and single-file forms (UiSpec, and UiFairSpec  *)
(*     with the main thread and the Tk timer running).                     *)
(***************************************************************************)
EXTENDS Integers, Sequences, FiniteSets, TLC

(***************************************************************************)
(* Bounds of the model.                                                    *)
(***************************************************************************)
\* key events the keyboard generates (presses, auto-repeats, releases,
\* other keys)
MaxKeyEvents == 3
\* audio chunks delivered to one stream
MaxChunks == 2
\* words in a generated argument of process
MaxWords == 2

(***************************************************************************)
(* Characters and strings.                                                 *)
(***************************************************************************)
LowerLetters ==
    <<"a","b","c","d","e","f","g","h","i","j","k","l","m",
      "n","o","p","q","r","s","t","u","v","w","x","y","z">>

UpperLetters ==
    <<"A","B","C","D","E","F","G","H","I","J","K","L","M",
      "N","O","P","Q","R","S","T","U","V","W","X","Y","Z">>

Digits == {"0","1","2","3","4","5","6","7","8","9"}

Range(s) == {s[i] : i \in DOMAIN s}

\* str.lower() on one character
Lower(c) ==
    IF c \in Range(UpperLetters)
    THEN LowerLetters[CHOOSE i \in DOMAIN UpperLetters : UpperLetters[i] = c]
    ELSE c

\* str.upper() on one character
Upper(c) ==
    IF c \in Range(LowerLetters)
    THEN UpperLetters[CHOOSE i \in DOMAIN LowerLetters : LowerLetters[i] = c]
    ELSE c

LowerStr(s) == [i \in DOMAIN s |-> Lower(s[i])]

\* the regex class \w
IsWordChar(c) ==
    c \in Range(LowerLetters) \cup Range(UpperLetters) \cup Digits \cup {"_"}

\* the characters str.strip() removes
IsSpace(c) == c \in {" ", "\t", "\n", "\r"}

\* s[from..], 1-based, empty when from is past the end
Drop(s, from) == SubSeq(s, from, Len(s))

RECURSIVE LStrip(_)
LStrip(s) ==
    IF s # <<>> /\ IsSpace(Head(s)) THEN LStrip(Tail(s)) ELSE s

RECURSIVE RStrip(_)
RStrip(s) ==
    IF s # <<>> /\ IsSpace(s[Len(s)]) THEN RStrip(SubSeq(s, 1, Len(s) - 1)) ELSE s

\* str.strip()
Strip(s) == RStrip(LStrip(s))

\* str.startswith(p)
StartsWith(s, p) ==
    /\ Len(p) <= Len(s)
    /\ SubSeq(s, 1, Len(p)) = p

\* does the literal p occur in s at index i
OccursAt(s, i, p) ==
    /\ i + Len(p) - 1 <= Len(s)
    /\ SubSeq(s, i, i + Len(p) - 1) = p

\* str.replace(old, new): leftmost non-overlapping occurrences, old non-empty
RECURSIVE StrReplaceFrom(_, _, _, _)
StrReplaceFrom(s, i, old, new) ==
    IF i > Len(s) THEN <<>>
    ELSE IF OccursAt(s, i, old)
         THEN new \o StrReplaceFrom(s, i + Len(old), old, new)
         ELSE <<s[i]>> \o StrReplaceFrom(s, i + 1, old, new)

StrReplace(s, old, new) == StrReplaceFrom(s, 1, old, new)

(***************************************************************************)
(* Regular expression  \b + re.escape(word) + \b  with re.IGNORECASE.      *)
(***************************************************************************)
\* is there a word character at index i of s (FALSE outside the string)
WordAt(s, i) == i >= 1 /\ i <= Len(s) /\ IsWordChar(s[i])

\* \b holds between index i-1 and index i
BoundaryBefore(s, i) == WordAt(s, i - 1) # WordAt(s, i)

\* the pattern matches s at index i
WordMatchAt(s, i, word) ==
    /\ i + Len(word) - 1 <= Len(s)
    /\ BoundaryBefore(s, i)
    /\ LowerStr(SubSeq(s, i, i + Len(word) - 1)) = LowerStr(word)
    /\ BoundaryBefore(s, i + Len(word))

\* the replacement template of re.sub.  A backslash in repl starts an
\* escape: \g<0> is the matched text, \1 .. \9 name a group (the pattern has
\* none), \0 is the NUL character, \a \b \f \n \r \t \v are control
\* characters, \\ is one backslash, any other ASCII letter is an error and
\* any other character is kept with its backslash.  Octal escapes of more
\* than one digit and named groups are not among the targets used.
Backslash == "\\"

ControlLetters == {"a", "b", "f", "n", "r", "t", "v"}

ControlChar(c) ==
    CASE c = "a" -> "BEL"
      [] c = "b" -> "BS"
      [] c = "f" -> "\f"
      [] c = "n" -> "\n"
      [] c = "r" -> "\r"
      [] c = "t" -> "\t"
      [] c = "v" -> "VT"

\* repl has \g<0> at index i
WholeMatchAt(repl, i) == OccursAt(repl, i, <<Backslash, "g", "<", "0", ">">>)

\* re.error while the template is parsed, from index i on
RECURSIVE TemplateErrorFrom(_, _)
TemplateErrorFrom(repl, i) ==
    IF i > Len(repl) THEN FALSE
    ELSE IF repl[i] # Backslash THEN TemplateErrorFrom(repl, i + 1)
    ELSE IF i = Len(repl) THEN TRUE
    ELSE IF repl[i + 1] = "g"
         THEN IF WholeMatchAt(repl, i) THEN TemplateErrorFrom(repl, i + 5) ELSE TRUE
    ELSE IF repl[i + 1] \in Digits \ {"0"} THEN TRUE
    ELSE IF repl[i + 1] \in ControlLetters \cup {"0", Backslash}
         THEN TemplateErrorFrom(repl, i + 2)
    ELSE IF repl[i + 1] \in Range(LowerLetters) \cup Range(UpperLetters) THEN TRUE
    ELSE TemplateErrorFrom(repl, i + 2)

\* re.sub raises re.error for this repl, whether the pattern matches or not
TemplateError(repl) == TemplateErrorFrom(repl, 1)

\* what a template without error expands to for the matched text m
RECURSIVE ExpandFrom(_, _, _)
ExpandFrom(repl, i, m) ==
    IF i > Len(repl) THEN <<>>
    ELSE IF repl[i] # Backslash \/ i = Len(repl)
         THEN <<repl[i]>> \o ExpandFrom(repl, i + 1, m)
    ELSE IF WholeMatchAt(repl, i) THEN m \o ExpandFrom(repl, i + 5, m)
    ELSE IF repl[i + 1] \in ControlLetters
         THEN <<ControlChar(repl[i + 1])>> \o ExpandFrom(repl, i + 2, m)
    ELSE IF repl[i + 1] = "0" THEN <<"NUL">> \o ExpandFrom(repl, i + 2, m)
    ELSE IF repl[i + 1] = Backslash THEN <<Backslash>> \o ExpandFrom(repl, i + 2, m)
    ELSE <<repl[i], repl[i + 1]>> \o ExpandFrom(repl, i + 2, m)

Expand(repl, m) == ExpandFrom(repl, 1, m)

\* re.sub(pattern, repl, s): leftmost non-overlapping matches, scanned on
\* the original string, each replaced by the expansion of repl
RECURSIVE ReSubFrom(_, _, _, _)
ReSubFrom(s, i, word, repl) ==
    IF i > Len(s) THEN <<>>
    ELSE IF WordMatchAt(s, i, word)
         THEN Expand(repl, SubSeq(s, i, i + Len(word) - 1))
                  \o ReSubFrom(s, i + Len(word), word, repl)
         ELSE <<s[i]>> \o ReSubFrom(s, i + 1, word, repl)

ReSub(s, word, repl) == ReSubFrom(s, 1, word, repl)

(***************************************************************************)
(* TextProcessor.  A configuration is a record                             *)
(*   [filler_words, replacements, capitalize_first, add_punctuation]       *)
(* where replacements is the dict as a sequence of <<wrong, right>> pairs  *)
(* in insertion order.                                                     *)
(***************************************************************************)
RECURSIVE CollapseSpaces(_)
CollapseSpaces(s) ==
    IF \E i \in DOMAIN s : OccursAt(s, i, <<" ", " ">>)
    THEN CollapseSpaces(StrReplace(s, <<" ", " ">>, <<" ">>))
    ELSE s

Puncts == <<".", ",", "!", "?", ":", ";">>

RECURSIVE FixPunct(_, _)
FixPunct(s, k) ==
    IF k > Len(Puncts) THEN s
    ELSE FixPunct(StrReplace(s, <<" ", Puncts[k]>>, <<Puncts[k]>>), k + 1)

\* one iteration of the loop over self.filler_words
RemoveOneFiller(text, filler) ==
    LET t1 == ReSub(text, filler, <<>>)
    IN IF StartsWith(LowerStr(t1), LowerStr(filler) \o <<" ">>)
       THEN Drop(t1, Len(filler) + 2)
       ELSE t1

RECURSIVE RemoveFillersLoop(_, _, _)
RemoveFillersLoop(text, fillers, k) ==
    IF k > Len(fillers) THEN text
    ELSE RemoveFillersLoop(RemoveOneFiller(text, fillers[k]), fillers, k + 1)

_remove_fillers(text, config) ==
    Strip(FixPunct(CollapseSpaces(RemoveFillersLoop(text, config.filler_words, 1)), 1))

RECURSIVE ReplaceLoop(_, _, _)
ReplaceLoop(text, reps, k) ==
    IF k > Len(reps) THEN text
    ELSE ReplaceLoop(ReSub(text, reps[k][1], reps[k][2]), reps, k + 1)

_replace_words(text, config) == ReplaceLoop(text, config.replacements, 1)

\* re.sub raises in the loop of _replace_words
ReplaceRaises(config) ==
    \E k \in DOMAIN config.replacements : TemplateError(config.replacements[k][2])

\* if self.capitalize_first and text: text = text[0].upper() + text[1:]
Capitalize(text, config) ==
    IF config.capitalize_first /\ text # <<>>
    THEN <<Upper(text[1])>> \o Tail(text)
    ELSE text

\* the final stage appending "." to any non-empty text
AddPunctuation_Always(text, config) ==
    IF config.add_punctuation /\ text # <<>>
    THEN text \o <<".">>
    ELSE text

\* if self.add_punctuation and text and text[-1] not in ".!?": text += "."
AddPunctuation(text, config) ==
    IF config.add_punctuation /\ text # <<>> /\ text[Len(text)] \notin {".", "!", "?"}
    THEN text \o <<".">>
    ELSE text

_format_text(text, config) == AddPunctuation(Capitalize(text, config), config)

\* the value process returns; it returns none when ReplaceRaises(config)
process(text, config) ==
    LET t0 == Strip(text)
    IN IF t0 = <<>> THEN <<>>
       ELSE _format_text(_replace_words(_remove_fillers(t0, config), config), config)

(***************************************************************************)
(* TextProcessor of the single-file program (whisper_hotkey.py): the same  *)
(* process, _replace_words and _format_text, another _remove_fillers.      *)
(* filler_words is the default fillers followed by the custom fillers.     *)
(***************************************************************************)
\* one iteration of the loop over filler_words
RemoveOneFiller_root(text, filler) ==
    LET t1 == StrReplace(text, <<" ">> \o filler \o <<" ">>, <<" ">>)
        t2 == StrReplace(t1, <<" ">> \o filler \o <<".">>, <<".">>)
        t3 == StrReplace(t2, <<" ">> \o filler \o <<",">>, <<",">>)
    IN IF StartsWith(LowerStr(t3), filler \o <<" ">>)
       THEN Drop(t3, Len(filler) + 2)
       ELSE t3

RECURSIVE RemoveFillersLoop_root(_, _, _)
RemoveFillersLoop_root(text, fillers, k) ==
    IF k > Len(fillers) THEN text
    ELSE RemoveFillersLoop_root(RemoveOneFiller_root(text, fillers[k]), fillers, k + 1)

_remove_fillers_root(text, config) ==
    CollapseSpaces(RemoveFillersLoop_root(text, config.filler_words, 1))

process_root(text, config) ==
    LET t0 == Strip(text)
    IN IF t0 = <<>> THEN <<>>
       ELSE _format_text(_replace_words(_remove_fillers_root(t0, config), config), config)

(***************************************************************************)
(* The configurations and the adapter outputs the model draws from.        *)
(***************************************************************************)
DefaultConfig ==
    [filler_words     |-> << <<"u","m">>, <<"l","i","k","e">>,
                             <<"k","i","n","d"," ","o","f">> >>,
     replacements     |-> << << <<"g","o","o","e","y">>, <<"g","u","i">> >> >>,
     capitalize_first |-> TRUE,
     add_punctuation  |-> TRUE]

PlainConfig ==
    [filler_words     |-> << <<"u","m">> >>,
     replacements     |-> <<>>,
     capitalize_first |-> FALSE,
     add_punctuation  |-> FALSE]

Configs == {DefaultConfig, PlainConfig}

\* values of result["text"] returned by model.transcribe
Transcripts ==
    { <<" ","u","m"," ","h","i"," ">>,
      <<" ","U","m",","," ","u","m","."," ">>,
      <<"u","m">>,
      <<" "," ">> }

\* a configuration with replacements: a plain word, a word that is a filler
\* of the same configuration, and a source ending in non-word characters
ReplaceConfig ==
    [filler_words     |-> << <<"u","m">>, <<"l","i","k","e">> >>,
     replacements     |-> << << <<"c","a","n","t">>, <<"c","a","n","'","t">> >>,
                             << <<"u","h","m">>, <<"u","m">> >>,
                             << <<"c","+","+">>, <<"c","p","p">> >> >>,
     capitalize_first |-> TRUE,
     add_punctuation  |-> TRUE]

\* WORD_REPLACEMENTS=tmp=C:\temp,both=\g<0> and more,star=\*
EscapeConfig ==
    [filler_words     |-> << <<"u","m">> >>,
     replacements     |-> << << <<"t","m","p">>, <<"C",":",Backslash,"t","e","m","p">> >>,
                             << <<"b","o","t","h">>,
                                <<Backslash,"g","<","0",">"," ","a","n","d"," ","m","o","r","e">> >>,
                             << <<"s","t","a","r">>, <<Backslash,"*">> >> >>,
     capitalize_first |-> FALSE,
     add_punctuation  |-> FALSE]

\* WORD_REPLACEMENTS=docs=C:\docs
BadEscapeConfig ==
    [filler_words     |-> << <<"u","m">> >>,
     replacements     |-> << << <<"d","o","c","s">>, <<"C",":",Backslash,"d","o","c","s">> >> >>,
     capitalize_first |-> FALSE,
     add_punctuation  |-> FALSE]

\* the configurations process is run under
TextConfigs == {DefaultConfig, PlainConfig, ReplaceConfig, EscapeConfig, BadEscapeConfig}

\* the two programs' TextProcessor classes
Variants == {"app", "root"}

\* words the generated arguments of process are made of
TextWords ==
    { <<"u","m">>,
      <<"U","m",",">>,
      <<"l","i","k","e">>,
      <<"l","i","k","e","l","y">>,
      <<"c","a","n","t">>,
      <<"s","c","a","n","t">>,
      <<"k","i","n","d">>,
      <<"o","f">>,
      <<"c","+","+">>,
      <<"h","i",".">> }

RECURSIVE Join(_)
Join(ws) ==
    IF ws = <<>> THEN <<>>
    ELSE IF Len(ws) = 1 THEN ws[1]
    ELSE ws[1] \o <<" ">> \o Join(Tail(ws))

\* arguments of process given by name
ExampleTexts ==
    { <<"h","e","l","l","o"," ","w","o","r","l","d">>,
      <<" "," ","u","m"," ","t","h","i","s"," ","i","s"," ","a"," ","t","e","s","t"," "," ">>,
      <<"I"," ","l","i","k","e","l","y"," ","w","i","l","l"," ","g","o">>,
      <<"I"," ","c","a","n","t"," ","d","o"," ","i","t">>,
      <<"s","c","a","n","t"," ","r","e","s","o","u","r","c","e","s">>,
      <<"k","i","n","d"," ","k","i","n","d"," ","o","f"," ","o","f">>,
      <<"k","i","n","d"," ","l","i","k","e"," ","o","f">>,
      <<"i","n"," ","t","m","p"," ","n","o","w">>,
      <<"b","o","t","h"," ","s","t","a","r">>,
      <<"m","y"," ","d","o","c","s">>,
      <<"u","h","m"," ","h","e","l","l","o">>,
      <<"g","o","o","e","y"," ","a","p","p">>,
      <<"u","s","e"," ","c","+","+"," ","n","o","w">>,
      <<"h","e","l","l","o"," ","u","m">>,
      <<" "," ">>,
      <<"h","i","!">>,
      <<"o","k","?">> }

\* the arguments of process: up to MaxWords words separated by one space,
\* and the examples
Inputs ==
    {Join(ws) : ws \in UNION {[1 .. k -> TextWords] : k \in 1 .. MaxWords}}
        \cup ExampleTexts

(***************************************************************************)
(* Messages.  A message is sent on the status channel (app.update_status)  *)
(* or on the log channel (print, i.e. log_message).                        *)
(***************************************************************************)
St(m) == [ch |-> "status", msg |-> m]
Lg(m) == [ch |-> "log", msg |-> m]

\* on_activate: "Left Ctrl pressed. Starting to record..."
PressedMsgs == << St("pressed"), Lg("pressed") >>

\* record_audio: "Recording while left Ctrl is held down..."
RecordingMsgs == << Lg("recording") >>

\* record_audio: "Recorded ... seconds of audio" / "No audio recorded"
CombineMsgs(audio_chunks) ==
    IF audio_chunks # <<>> THEN << Lg("recorded") >> ELSE << Lg("no_audio_recorded") >>

\* on_activate: "Transcribing..."
TranscribingMsgs == << St("transcribing"), Lg("transcribing") >>

\* on_activate: "No audio file to transcribe." / "No audio recorded. ..."
NoAudioMsgs == << Lg("no_audio_file"), St("no_audio") >>

\* on_activate reporting "Ready" before typing as well as after it
BeforeTypeMsgs_Ready == << Lg("typing"), St("ready") >>

\* on_activate: what is logged before typing
BeforeTypeMsgs == << Lg("typing") >>

\* on_activate: "Ready. ..."
ReadyMsgs == << St("ready") >>

\* on_activate: "No speech detected."
NoSpeechMsgs == << Lg("no_speech"), St("no_speech") >>

(***************************************************************************)
(* The status line and the status indicator of the user interface.         *)
(***************************************************************************)
\* "Left Ctrl pressed. Starting to record..."
PressedText ==
    << "L","e","f","t"," ","C","t","r","l"," ","p","r","e","s","s",
       "e","d","."," ","S","t","a","r","t","i","n","g"," ","t","o",
       " ","r","e","c","o","r","d",".",".","." >>

\* "Transcribing..."
TranscribingText ==
    << "T","r","a","n","s","c","r","i","b","i","n","g",".",".","." >>

\* "Ready. Press and hold left Ctrl to record."
ReadyText ==
    << "R","e","a","d","y","."," ","P","r","e","s","s"," ","a","n",
       "d"," ","h","o","l","d"," ","l","e","f","t"," ","C","t","r",
       "l"," ","t","o"," ","r","e","c","o","r","d","." >>

\* "No speech detected. Press and hold left Ctrl to try again."
NoSpeechText ==
    << "N","o"," ","s","p","e","e","c","h"," ","d","e","t","e","c",
       "t","e","d","."," ","P","r","e","s","s"," ","a","n","d"," ",
       "h","o","l","d"," ","l","e","f","t"," ","C","t","r","l"," ",
       "t","o"," ","t","r","y"," ","a","g","a","i","n","." >>

\* "No audio recorded. Press and hold left Ctrl to try again."
NoAudioText ==
    << "N","o"," ","a","u","d","i","o"," ","r","e","c","o","r","d",
       "e","d","."," ","P","r","e","s","s"," ","a","n","d"," ","h",
       "o","l","d"," ","l","e","f","t"," ","C","t","r","l"," ","t",
       "o"," ","t","r","y"," ","a","g","a","i","n","." >>

\* the string on_activate passes to app.update_status
StatusText(msg) ==
    CASE msg = "pressed" -> PressedText
      [] msg = "transcribing" -> TranscribingText
      [] msg = "ready" -> ReadyText
      [] msg = "no_speech" -> NoSpeechText
      [] msg = "no_audio" -> NoAudioText

\* p in s
Contains(s, p) == \E i \in DOMAIN s : OccursAt(s, i, p)

\* update_status: the indicator shown for a status
update_status(status) ==
    IF Contains(LowerStr(status), <<"r","e","c","o","r","d","i","n","g">>)
    THEN "Recording"
    ELSE IF Contains(LowerStr(status), <<"t","r","a","n","s","c","r","i","b","i","n","g">>)
         THEN "Processing"
         ELSE "Idle"

(***************************************************************************)
(* State.                                                                  *)
(***************************************************************************)
VARIABLES
    keyDown,        \* the physical left Ctrl key is held
    holds,          \* number of physical presses of left Ctrl so far
    nevents,        \* number of key events generated so far
    lq,             \* events waiting for the listener thread of main()
    listenerAlive,  \* the listener thread of main() is running
    cfg,            \* the TextProcessor's configuration
    born,           \* number of calls of on_activate so far
    act,            \* the calls of on_activate, by number
    tp,             \* a call of TextProcessor.process looked at on its own
    ui              \* main(), the user interface and the message queues

vars == <<keyDown, holds, nevents, lq, listenerAlive, cfg, born, act, tp, ui>>

\* every left Ctrl press event can start one call of on_activate
Acts == 1 .. MaxKeyEvents

\* a key event: hold numbers the physical press it belongs to, repeat marks an
\* auto-repeat press, phase records what the program was doing on arrival
NoEvent ==
    [kind |-> "none", key |-> "none", hold |-> 0, repeat |-> FALSE, phase |-> "none"]

NewAct ==
    [pc             |-> "unborn",
     startedBy      |-> NoEvent,   \* the press event the listener dispatched
     tmpExists      |-> FALSE,     \* the NamedTemporaryFile is on disk
     stream         |-> "none",    \* sd.InputStream: none, active, stopped, closed
     audio_chunks   |-> <<>>,
     delivered      |-> <<>>,      \* the buffers the audio thread handed over, in order
     recording      |-> <<>>,      \* the samples written to the file
     events         |-> FALSE,     \* the keyboard.Events() observer is running
     evq            |-> <<>>,      \* its queue
     endedBy        |-> 0,         \* hold number of the release that ended the loop
     audio_path     |-> "",
     text           |-> <<>>,
     cleaned        |-> <<>>,
     transcribed    |-> 0,         \* calls of model.transcribe
     typed          |-> <<>>,      \* arguments of pyautogui.typewrite, in order
     emitted        |-> <<>>,      \* messages sent, in order
     failedAt       |-> "none"]    \* where an exception left on_activate

\* a call of process(text) by TextProcessor variant, with self as it is in cfg
NewCall(variant, text, loaded, target) ==
    [pc       |-> "strip",
     variant  |-> variant,
     run      |-> 1,
     arg      |-> text,          \* the argument of process
     text     |-> text,          \* the local variable text
     trace    |-> <<>>,          \* the stages run, each with its input and output
     result   |-> <<>>,          \* the return value
     first    |-> <<>>,          \* the return value of the first of two runs
     used     |-> <<>>,          \* the attributes of self read, with their values
     loaded   |-> loaded,        \* the configuration self held when the call began
     reload   |-> "idle",        \* where a reload_config running beside the call is
     target   |-> target,        \* the configuration reload_config is loading
     env      |-> <<>>,          \* the value of WORD_REPLACEMENTS reload_config reads
     pairs    |-> <<>>]          \* what is left of replacements.split(",")

\* no call of process is looked at on its own
NoCall == [NewCall("app", <<>>, PlainConfig, PlainConfig) EXCEPT !.pc = "none"]

\* main() and the user interface, before the program is started
NoUi ==
    [mode          |-> "none",     \* "terminal", "gui" or "root" (single file)
     pc            |-> "loading",  \* where the main thread is
     listener      |-> "none",     \* the keyboard.Listener thread
     message_queue |-> <<>>,       \* message_queue of the main module
     gui_queue     |-> <<>>,       \* message_queue of ui/gui_implementation.py
     stdout        |-> <<>>,       \* what original_print has written
     log_display   |-> <<>>,       \* the ScrolledText of the window
     running       |-> FALSE,      \* WhisperHotkeyTerminal.running
     ended_by      |-> "none"]     \* why the process ended

Init ==
    /\ keyDown = FALSE
    /\ holds = 0
    /\ nevents = 0
    /\ lq = <<>>
    /\ listenerAlive = TRUE
    /\ cfg \in Configs
    /\ born = 0
    /\ act = [a \in Acts |-> NewAct]
    /\ ui = NoUi
    /\ tp = NoCall

(***************************************************************************)
(* Where a call of on_activate is.                                         *)
(***************************************************************************)
Running(a) == act[a].pc \notin {"unborn", "returned", "crashed"}

\* the session of record_audio is capturing: its stream delivers audio
Capturing(a) == act[a].stream = "active"

StreamOpen(a) == act[a].stream \in {"active", "stopped"}

\* transcription, normalization and keystroke output of the request
Processing(a) == act[a].pc \in {"transcribe", "remove", "process", "type"}

\* what the program is doing when a key event arrives
Phase ==
    IF \E a \in Acts : Capturing(a) THEN "capturing"
    ELSE IF \E a \in Acts : Processing(a) THEN "processing"
    ELSE IF \E a \in Acts : Running(a) THEN "busy"
    ELSE "idle"

\* a listener that starts every callback on a thread of its own
ListenerFree_Concurrent == TRUE

\* keyboard.Listener runs its callbacks one at a time on its own thread:
\* the next event is handled when the previous on_press call has returned
ListenerFree == \A a \in Acts : ~Running(a)

\* the lambda of main(): on_activate for left Ctrl only
IsRecordKey(e) == e.key = "ctrl_l"

\* record_audio's loop condition
IsStopEvent(e) == e.kind = "release" /\ e.key = "ctrl_l"

\* record_audio returning the file name whatever was recorded
RecordingPath_Always(audio_chunks) == "tmp.wav"

\* what record_audio returns
RecordingPath(audio_chunks) == IF audio_chunks # <<>> THEN "tmp.wav" ELSE ""

\* on_activate: audio_path and os.path.exists(audio_path)
ShouldTranscribe(audio_path, exists) == audio_path # "" /\ exists

\* on_activate typing whatever process() returned
ShouldType_Always(cleaned) == TRUE

\* on_activate: if cleaned
ShouldType(cleaned) == cleaned # <<>>

(***************************************************************************)
(* The keyboard.                                                           *)
(***************************************************************************)
\* a key event reaches the listener of main() (which has only on_press) and
\* every running keyboard.Events() observer
\* a listener of main() that hands releases to its callback as well
Deliver_Releases(e) ==
    /\ lq' = IF listenerAlive THEN Append(lq, e) ELSE lq
    /\ act' = [a \in Acts |->
                 IF act[a].events
                 THEN [act[a] EXCEPT !.evq = Append(@, e)]
                 ELSE act[a]]

Deliver(e) ==
    /\ lq' = IF listenerAlive /\ e.kind = "press" THEN Append(lq, e) ELSE lq
    /\ act' = [a \in Acts |->
                 IF act[a].events
                 THEN [act[a] EXCEPT !.evq = Append(@, e)]
                 ELSE act[a]]

KeyPress ==
    /\ ~keyDown
    /\ nevents < MaxKeyEvents
    /\ keyDown' = TRUE
    /\ holds' = holds + 1
    /\ nevents' = nevents + 1
    /\ Deliver([kind |-> "press", key |-> "ctrl_l", hold |-> holds + 1,
                repeat |-> FALSE, phase |-> Phase])
    /\ UNCHANGED <<listenerAlive, cfg, tp, born, ui>>

\* a held key generates further press events
KeyRepeat ==
    /\ keyDown
    /\ nevents < MaxKeyEvents
    /\ nevents' = nevents + 1
    /\ Deliver([kind |-> "press", key |-> "ctrl_l", hold |-> holds,
                repeat |-> TRUE, phase |-> Phase])
    /\ UNCHANGED <<keyDown, holds, listenerAlive, cfg, tp, born, ui>>

KeyRelease ==
    /\ keyDown
    /\ nevents < MaxKeyEvents
    /\ keyDown' = FALSE
    /\ nevents' = nevents + 1
    /\ Deliver([kind |-> "release", key |-> "ctrl_l", hold |-> holds,
                repeat |-> FALSE, phase |-> Phase])
    /\ UNCHANGED <<holds, listenerAlive, cfg, tp, born, ui>>

OtherKey ==
    /\ nevents < MaxKeyEvents
    /\ nevents' = nevents + 1
    /\ \E k \in {"press", "release"} :
         Deliver([kind |-> k, key |-> "other", hold |-> 0,
                  repeat |-> FALSE, phase |-> Phase])
    /\ UNCHANGED <<keyDown, holds, listenerAlive, cfg, tp, born, ui>>

(***************************************************************************)
(* The listener thread of main().                                          *)
(***************************************************************************)
\* on_press with left Ctrl: on_activate(text_processor) is called
DispatchPress ==
    /\ listenerAlive
    /\ ListenerFree
    /\ lq # <<>>
    /\ IsRecordKey(Head(lq))
    /\ lq' = Tail(lq)
    /\ born' = born + 1
    /\ act' = [act EXCEPT ![born + 1].pc = "on_activate",
                          ![born + 1].startedBy = Head(lq)]
    /\ UNCHANGED <<keyDown, holds, nevents, listenerAlive, cfg, tp, ui>>

\* on_press with another key: the lambda returns None
DispatchOther ==
    /\ listenerAlive
    /\ ListenerFree
    /\ lq # <<>>
    /\ ~IsRecordKey(Head(lq))
    /\ lq' = Tail(lq)
    /\ UNCHANGED <<keyDown, holds, nevents, listenerAlive, cfg, tp, born, act, ui>>

\* an exception leaves on_activate: the listener thread ends with it
Raise(a, where) ==
    /\ act' = [act EXCEPT ![a].pc = "crashed",
                          ![a].failedAt = where]
    /\ listenerAlive' = FALSE
    /\ UNCHANGED <<keyDown, holds, nevents, lq, cfg, tp, born, ui>>

\* a step of call a that touches nothing but the call
Step(a, new) ==
    /\ act' = [act EXCEPT ![a] = new]
    /\ UNCHANGED <<keyDown, holds, nevents, lq, listenerAlive, cfg, tp, born, ui>>

(***************************************************************************)
(* on_activate and record_audio.                                           *)
(***************************************************************************)
\* update_status + print "Left Ctrl pressed. Starting to record..."
OnActivate(a) ==
    /\ act[a].pc = "on_activate"
    /\ Step(a, [act[a] EXCEPT !.pc = "tempfile",
                              !.emitted = @ \o PressedMsgs])

\* with tempfile.NamedTemporaryFile(suffix=".wav", delete=False) as tmp
CreateTemp(a) ==
    /\ act[a].pc = "tempfile"
    /\ Step(a, [act[a] EXCEPT !.pc = "stream_start",
                              !.tmpExists = TRUE])

\* sd.InputStream(...); stream.start()
StreamStart(a) ==
    /\ act[a].pc = "stream_start"
    /\ Step(a, [act[a] EXCEPT !.pc = "print_recording",
                              !.stream = "active"])

\* sd.InputStream(...) or stream.start() raises (device busy, denied)
StreamStartFails(a) ==
    /\ act[a].pc = "stream_start"
    /\ Raise(a, "stream")

\* print "Recording while left Ctrl is held down..."
PrintRecording(a) ==
    /\ act[a].pc = "print_recording"
    /\ Step(a, [act[a] EXCEPT !.pc = "events_enter",
                              !.emitted = @ \o RecordingMsgs])

\* with keyboard.Events() as events: the observer starts
EventsEnter(a) ==
    /\ act[a].pc = "events_enter"
    /\ Step(a, [act[a] EXCEPT !.pc = "events_loop",
                              !.events = TRUE])

\* for event in events: one event; break on the release of left Ctrl
EventsNext(a) ==
    /\ act[a].pc = "events_loop"
    /\ act[a].evq # <<>>
    /\ LET e == Head(act[a].evq)
       IN IF IsStopEvent(e)
          THEN Step(a, [act[a] EXCEPT !.pc = "stream_stop",
                                      !.events = FALSE,
                                      !.evq = <<>>,
                                      !.endedBy = e.hold])
          ELSE Step(a, [act[a] EXCEPT !.evq = Tail(@)])

\* a stream that goes on calling back after stop() has returned
CallbackMayRun_AfterStop(stream) == stream \in {"active", "stopped"}

\* the stream calls back from start() until stop() returns: stop() waits
\* for the pending buffers and the running callback
CallbackMayRun(stream) == stream = "active"

\* a callback that puts the newest buffer first
AppendChunk_First(audio_chunks, indata) == <<indata>> \o audio_chunks

\* audio_chunks.append(indata.copy())
AppendChunk(audio_chunks, indata) == Append(audio_chunks, indata)

\* the n-th buffer of a stream: one frame holding the sample n
Buffer(n) == <<n>>

\* the audio thread calls callback(indata, frames, time, status)
AudioCallback(a) ==
    /\ CallbackMayRun(act[a].stream)
    /\ Len(act[a].delivered) < MaxChunks
    /\ \E status \in BOOLEAN :
         LET indata == Buffer(Len(act[a].delivered) + 1)
         IN Step(a, [act[a] EXCEPT
                       !.delivered = Append(@, indata),
                       !.audio_chunks = AppendChunk(@, indata),
                       !.emitted = IF status THEN Append(@, Lg("audio_error")) ELSE @])

\* stream.stop()
StreamStop(a) ==
    /\ act[a].pc = "stream_stop"
    /\ Step(a, [act[a] EXCEPT !.pc = "stream_close",
                              !.stream = "stopped"])

\* stream.close()
StreamClose(a) ==
    /\ act[a].pc = "stream_close"
    /\ Step(a, [act[a] EXCEPT !.pc = "combine",
                              !.stream = "closed"])

\* numpy.concatenate(audio_chunks, axis=0)
RECURSIVE Concatenate(_)
Concatenate(audio_chunks) ==
    IF audio_chunks = <<>> THEN <<>>
    ELSE Head(audio_chunks) \o Concatenate(Tail(audio_chunks))

\* if audio_chunks: concatenate, write, return tmp.name; else return ""
Combine(a) ==
    /\ act[a].pc = "combine"
    /\ Step(a, [act[a] EXCEPT !.pc = "check_path",
                              !.recording = Concatenate(act[a].audio_chunks),
                              !.emitted = @ \o CombineMsgs(act[a].audio_chunks),
                              !.audio_path = RecordingPath(act[a].audio_chunks)])

\* if audio_path and os.path.exists(audio_path): ... else: ...
CheckPath(a) ==
    /\ act[a].pc = "check_path"
    /\ IF ShouldTranscribe(act[a].audio_path, act[a].tmpExists)
       THEN Step(a, [act[a] EXCEPT !.pc = "transcribe",
                                   !.emitted = @ \o TranscribingMsgs])
       ELSE Step(a, [act[a] EXCEPT !.pc = "done",
                                   !.emitted = @ \o NoAudioMsgs])

\* text = transcribe_file(audio_path): result["text"].strip()
Transcribe(a) ==
    /\ act[a].pc = "transcribe"
    /\ \E t \in Transcripts :
         Step(a, [act[a] EXCEPT !.pc = "remove",
                                !.transcribed = @ + 1,
                                !.text = Strip(t)])

\* model.transcribe raises
TranscribeFails(a) ==
    /\ act[a].pc = "transcribe"
    /\ act' = [act EXCEPT ![a].pc = "crashed",
                          ![a].failedAt = "transcribe",
                          ![a].transcribed = @ + 1]
    /\ listenerAlive' = FALSE
    /\ UNCHANGED <<keyDown, holds, nevents, lq, cfg, tp, born, ui>>

\* os.remove(audio_path)
Remove(a) ==
    /\ act[a].pc = "remove"
    /\ Step(a, [act[a] EXCEPT !.pc = "process",
                              !.tmpExists = FALSE])

\* the texts transcribe_file can return
Texts == {Strip(t) : t \in Transcripts}

\* text_processor.process(text) under each configuration, tabulated over
\* the texts of the model
ProcessedText ==
    {[text |-> text, config |-> config, cleaned |-> process(text, config)] :
        text \in Texts, config \in Configs}

\* cleaned = text_processor.process(text)
Process(a) ==
    /\ act[a].pc = "process"
    /\ \E r \in ProcessedText :
         /\ r.text = act[a].text
         /\ r.config = cfg
         /\ Step(a, [act[a] EXCEPT !.pc = "type",
                                   !.cleaned = r.cleaned])

\* if cleaned: print, typewrite, update_status; else: print, update_status
TypeOut(a) ==
    /\ act[a].pc = "type"
    /\ IF ShouldType(act[a].cleaned)
       THEN Step(a, [act[a] EXCEPT !.pc = "done",
                                   !.typed = Append(@, act[a].cleaned),
                                   !.emitted = @ \o BeforeTypeMsgs \o ReadyMsgs])
       ELSE Step(a, [act[a] EXCEPT !.pc = "done",
                                   !.emitted = @ \o NoSpeechMsgs])

\* on_activate returns to the listener thread; its locals are gone, the
\* temporary file stays as it is
Return(a) ==
    /\ act[a].pc = "done"
    /\ Step(a, [NewAct EXCEPT !.pc = "returned",
                              !.tmpExists = act[a].tmpExists])

Next ==
    \/ KeyPress
    \/ KeyRepeat
    \/ KeyRelease
    \/ OtherKey
    \/ DispatchPress
    \/ DispatchOther
    \/ \E a \in Acts :
         \/ OnActivate(a)
         \/ CreateTemp(a)
         \/ StreamStart(a)
         \/ StreamStartFails(a)
         \/ PrintRecording(a)
         \/ EventsEnter(a)
         \/ EventsNext(a)
         \/ AudioCallback(a)
         \/ StreamStop(a)
         \/ StreamClose(a)
         \/ Combine(a)
         \/ CheckPath(a)
         \/ Transcribe(a)
         \/ TranscribeFails(a)
         \/ Remove(a)
         \/ Process(a)
         \/ TypeOut(a)
         \/ Return(a)

Spec == Init /\ [][Next]_vars

(***************************************************************************)
(* TextProcessor.process on its own, one step per stage.  The stages read  *)
(* self, which is cfg, when they run.                                      *)
(***************************************************************************)
\* process running _replace_words before _remove_fillers
StageAfter_ReplaceFirst(stage) ==
    CASE stage = "strip" -> "replace"
      [] stage = "replace" -> "fillers"
      [] stage = "fillers" -> "capitalize"
      [] stage = "capitalize" -> "punctuate"
      [] stage = "punctuate" -> "done"

\* the order of the statements of process and _format_text
StageAfter(stage) ==
    CASE stage = "strip" -> "fillers"
      [] stage = "fillers" -> "replace"
      [] stage = "replace" -> "capitalize"
      [] stage = "capitalize" -> "punctuate"
      [] stage = "punctuate" -> "done"

\* a stage of the call turns text into out, having read attrs of self
RunStage(stage, out, attrs) ==
    /\ tp.pc = stage
    /\ tp' = [tp EXCEPT
                !.pc = StageAfter(stage),
                !.text = out,
                !.trace = Append(@, [stage |-> stage, in |-> tp.text, out |-> out]),
                !.used = @ \o [i \in 1 .. Len(attrs) |->
                                  [attr |-> attrs[i], value |-> cfg[attrs[i]]]],
                !.result = IF StageAfter(stage) = "done" THEN out ELSE @]
    /\ UNCHANGED <<keyDown, holds, nevents, lq, listenerAlive, cfg, born, act, ui>>

\* text = text.strip(); if not text: return ""
ProcStrip ==
    /\ tp.pc = "strip"
    /\ IF Strip(tp.text) = <<>>
       THEN /\ tp' = [tp EXCEPT
                       !.pc = "done",
                       !.text = <<>>,
                       !.trace = Append(@, [stage |-> "strip", in |-> tp.text, out |-> <<>>]),
                       !.result = <<>>]
            /\ UNCHANGED <<keyDown, holds, nevents, lq, listenerAlive, cfg, born, act, ui>>
       ELSE RunStage("strip", Strip(tp.text), <<>>)

\* text = self._remove_fillers(text)
ProcRemoveFillers ==
    RunStage("fillers",
             IF tp.variant = "app"
             THEN _remove_fillers(tp.text, cfg)
             ELSE _remove_fillers_root(tp.text, cfg),
             <<"filler_words">>)

\* text = self._replace_words(text)
ProcReplaceWords ==
    /\ ~ReplaceRaises(cfg)
    /\ RunStage("replace", _replace_words(tp.text, cfg), <<"replacements">>)

\* re.sub raises re.error in _replace_words and process ends with it
ProcReplaceRaises ==
    /\ tp.pc = "replace"
    /\ ReplaceRaises(cfg)
    /\ tp' = [tp EXCEPT !.pc = "raised",
                        !.used = @ \o <<[attr |-> "replacements", value |-> cfg.replacements]>>]
    /\ UNCHANGED <<keyDown, holds, nevents, lq, listenerAlive, cfg, born, act, ui>>

\* _format_text: the capitalize_first statement
ProcCapitalize ==
    RunStage("capitalize", Capitalize(tp.text, cfg), <<"capitalize_first">>)

\* _format_text: the add_punctuation statement; process returns
ProcPunctuate ==
    RunStage("punctuate", AddPunctuation(tp.text, cfg), <<"add_punctuation">>)

\* the return value is given to process again
ProcAgain ==
    /\ tp.pc = "done"
    /\ tp.run = 1
    /\ tp' = [tp EXCEPT !.pc = "strip",
                        !.run = 2,
                        !.first = tp.result,
                        !.arg = tp.result,
                        !.text = tp.result,
                        !.trace = <<>>,
                        !.used = <<>>,
                        !.result = <<>>]
    /\ UNCHANGED <<keyDown, holds, nevents, lq, listenerAlive, cfg, born, act, ui>>

ProcNext ==
    \/ ProcStrip
    \/ ProcRemoveFillers
    \/ ProcReplaceWords
    \/ ProcReplaceRaises
    \/ ProcCapitalize
    \/ ProcPunctuate

TextInit ==
    /\ keyDown = FALSE
    /\ holds = 0
    /\ nevents = 0
    /\ lq = <<>>
    /\ listenerAlive = TRUE
    /\ born = 0
    /\ act = [a \in Acts |-> NewAct]
    /\ ui = NoUi
    /\ cfg \in TextConfigs
    /\ \E variant \in Variants, text \in Inputs :
         tp = NewCall(variant, text, cfg, cfg)

TextNext == ProcNext \/ ProcAgain

TextSpec == TextInit /\ [][TextNext]_vars

(***************************************************************************)
(* reload_config called on another thread while process runs: it assigns   *)
(* the attributes of self one after the other.                             *)
(***************************************************************************)
\* a statement of reload_config leaves self as new
ReloadStep(from, to, new) ==
    /\ tp.reload = from
    /\ cfg' = new
    /\ tp' = [tp EXCEPT !.reload = to]
    /\ UNCHANGED <<keyDown, holds, nevents, lq, listenerAlive, born, act, ui>>

\* self.filler_words = [...]
ReloadFillers ==
    ReloadStep("filler_words", "capitalize_first",
               [cfg EXCEPT !.filler_words = tp.target.filler_words])

\* self.capitalize_first = ...
ReloadCapitalize ==
    ReloadStep("capitalize_first", "add_punctuation",
               [cfg EXCEPT !.capitalize_first = tp.target.capitalize_first])

\* self.add_punctuation = ...
ReloadPunctuation ==
    ReloadStep("add_punctuation", "replacements",
               [cfg EXCEPT !.add_punctuation = tp.target.add_punctuation])

\* self.replacements = {}
ReloadClear ==
    ReloadStep("replacements", "pairs", [cfg EXCEPT !.replacements = <<>>])

\* self.replacements[wrong.strip()] = right.strip()
ReloadPair ==
    /\ Len(cfg.replacements) < Len(tp.target.replacements)
    /\ ReloadStep("pairs", "pairs",
                  [cfg EXCEPT !.replacements =
                      Append(@, tp.target.replacements[Len(@) + 1])])

\* the loop over the pairs ends, reload_config returns
ReloadReturn ==
    /\ Len(cfg.replacements) = Len(tp.target.replacements)
    /\ ReloadStep("pairs", "idle", cfg)

ReloadInit ==
    /\ keyDown = FALSE
    /\ holds = 0
    /\ nevents = 0
    /\ lq = <<>>
    /\ listenerAlive = TRUE
    /\ born = 0
    /\ act = [a \in Acts |-> NewAct]
    /\ ui = NoUi
    /\ cfg \in TextConfigs
    /\ \E text \in ExampleTexts, target \in TextConfigs \ {cfg} :
         tp = [NewCall("app", text, cfg, target) EXCEPT !.reload = "filler_words"]

ReloadNext ==
    \/ ProcNext
    \/ ReloadFillers
    \/ ReloadCapitalize
    \/ ReloadPunctuation
    \/ ReloadClear
    \/ ReloadPair
    \/ ReloadReturn

ReloadSpec == ReloadInit /\ [][ReloadNext]_vars

(***************************************************************************)
(* reload_config parsing WORD_REPLACEMENTS, one entry per step.  The dict   *)
(* self.replacements is the sequence of its <<key, value>> pairs in         *)
(* insertion order.                                                        *)
(***************************************************************************)
MaxEntries == 3

\* str.split(sep)
RECURSIVE SplitFrom(_, _, _, _)
SplitFrom(s, i, sep, cur) ==
    IF i > Len(s) THEN <<cur>>
    ELSE IF s[i] = sep THEN <<cur>> \o SplitFrom(s, i + 1, sep, <<>>)
    ELSE SplitFrom(s, i + 1, sep, Append(cur, s[i]))

Split(s, sep) == SplitFrom(s, 1, sep, <<>>)

\* "=" in pair
HasEquals(pair) == \E i \in DOMAIN pair : pair[i] = "="

\* pair.split("=", 1) of a pair that has an "="
SplitOnce(pair) ==
    LET i == CHOOSE j \in DOMAIN pair :
                 pair[j] = "=" /\ \A h \in 1 .. j - 1 : pair[h] # "="
    IN << SubSeq(pair, 1, i - 1), Drop(pair, i + 1) >>

\* d[key] = value
DictSet(d, key, value) ==
    IF \E k \in DOMAIN d : d[k][1] = key
    THEN [k \in DOMAIN d |-> IF d[k][1] = key THEN <<key, value>> ELSE d[k]]
    ELSE Append(d, <<key, value>>)

\* a loop body that forgets what was loaded when an entry has no "="
LoadPair_Reset(replacements, entry) ==
    LET pair == Strip(entry)
    IN IF pair # <<>> /\ HasEquals(pair)
       THEN DictSet(replacements, Strip(SplitOnce(pair)[1]), Strip(SplitOnce(pair)[2]))
       ELSE <<>>

\* the body of the loop over replacements.split(",")
LoadPair(replacements, entry) ==
    LET pair == Strip(entry)
    IN IF pair # <<>> /\ HasEquals(pair)
       THEN DictSet(replacements, Strip(SplitOnce(pair)[1]), Strip(SplitOnce(pair)[2]))
       ELSE replacements

\* the entries WORD_REPLACEMENTS is made of
Entries ==
    { <<"a","=","b">>,
      <<" ","c"," ","="," ","d"," ">>,
      <<"b","a","d">>,
      <<>>,
      <<"a","=","z">>,
      <<"p","=","q","=","r">>,
      <<"=","x">> }

RECURSIVE JoinWith(_, _)
JoinWith(es, sep) ==
    IF Len(es) = 0 THEN <<>>
    ELSE IF Len(es) = 1 THEN es[1]
    ELSE es[1] \o <<sep>> \o JoinWith(Tail(es), sep)

EnvValues ==
    {JoinWith(es, ",") : es \in UNION {[1 .. k -> Entries] : k \in 1 .. MaxEntries}}

ParseStep(new, replacements) ==
    /\ tp' = new
    /\ cfg' = [cfg EXCEPT !.replacements = replacements]
    /\ UNCHANGED <<keyDown, holds, nevents, lq, listenerAlive, born, act, ui>>

\* replacements = os.getenv(..); self.replacements = {}; the split
ParseBegin ==
    /\ tp.reload = "replacements"
    /\ ParseStep([tp EXCEPT !.reload = "pairs", !.pairs = Split(tp.env, ",")], <<>>)

\* one turn of the loop
ParsePair ==
    /\ tp.reload = "pairs"
    /\ tp.pairs # <<>>
    /\ ParseStep([tp EXCEPT !.pairs = Tail(@)], LoadPair(cfg.replacements, Head(tp.pairs)))

\* the loop ends, reload_config returns
ParseReturn ==
    /\ tp.reload = "pairs"
    /\ tp.pairs = <<>>
    /\ ParseStep([tp EXCEPT !.reload = "idle"], cfg.replacements)

ParseInit ==
    /\ keyDown = FALSE
    /\ holds = 0
    /\ nevents = 0
    /\ lq = <<>>
    /\ listenerAlive = TRUE
    /\ born = 0
    /\ act = [a \in Acts |-> NewAct]
    /\ ui = NoUi
    /\ cfg = ReplaceConfig
    /\ \E env \in EnvValues :
         tp = [NoCall EXCEPT !.reload = "replacements", !.env = env]

ParseNext ==
    \/ ParseBegin
    \/ ParsePair
    \/ ParseReturn

ParseSpec == ParseInit /\ [][ParseNext]_vars

(***************************************************************************)
(* main(), log_message and the user interface.  A message is the number of *)
(* the call of log_message that sent it with the thread that called.  The  *)
(* header that the terminal interface prints with the built-in print is    *)
(* not a message.                                                          *)
(***************************************************************************)
MaxMessages == 3

Modes == {"terminal", "gui", "root"}

\* the process has not ended
Alive == ui.pc # "exited"

\* the messages sent through log_message so far, in order
Logged == ui.stdout

\* log_message: original_print(message); message_queue.put(message)
log_message(u, thread) ==
    LET message == [n |-> Len(u.stdout) + 1, by |-> thread]
    IN [u EXCEPT !.stdout = Append(@, message),
                 !.message_queue = Append(@, message)]

\* poll_messages of the single-file program: drains its module's queue
poll_messages_root(u) ==
    [u EXCEPT !.log_display = @ \o u.message_queue,
              !.message_queue = <<>>]

\* poll_messages of ui/gui_implementation.py: drains that module's queue
poll_messages(u) ==
    [u EXCEPT !.log_display = @ \o u.gui_queue,
              !.gui_queue = <<>>]

UiStep(new) ==
    /\ ui' = new
    /\ UNCHANGED <<keyDown, holds, nevents, lq, listenerAlive, cfg, born, act, tp>>

\* main() prints while it loads the configuration and the model
MainLogs ==
    /\ ui.pc = "loading"
    /\ Len(ui.stdout) < MaxMessages
    /\ UiStep(log_message(ui, "main"))

\* main() has loaded the model
LoadDone ==
    /\ ui.pc = "loading"
    /\ UiStep([ui EXCEPT !.pc = "create"])

\* app = WhisperHotkeyTerminal(..) / WhisperHotkeyGUI(..); the window of the
\* single-file program is built here and polls once
CreateUi ==
    /\ ui.pc = "create"
    /\ UiStep([(IF ui.mode = "root" THEN poll_messages_root(ui) ELSE ui)
                 EXCEPT !.pc = "listener"])

\* listener.daemon = True; listener.start()
ListenerStart ==
    /\ ui.pc = "listener"
    /\ UiStep([ui EXCEPT !.pc = "start", !.listener = "started"])

\* app.start() / root.mainloop()
UiStart ==
    /\ ui.pc = "start"
    /\ UiStep(CASE ui.mode = "terminal" ->
                     [ui EXCEPT !.pc = "returned", !.running = TRUE]
                [] ui.mode = "gui" ->
                     [poll_messages(ui) EXCEPT !.pc = "mainloop"]
                [] ui.mode = "root" ->
                     [ui EXCEPT !.pc = "mainloop"])

\* on_activate, running on the listener thread, prints
ListenerLogs ==
    /\ Alive
    /\ ui.listener = "started"
    /\ Len(ui.stdout) < MaxMessages
    /\ UiStep(log_message(ui, "listener"))

\* root.after(100, self.poll_messages) fires in the main loop
PollMessages ==
    /\ ui.pc = "mainloop"
    /\ UiStep(IF ui.mode = "root" THEN poll_messages_root(ui) ELSE poll_messages(ui))

\* start() has returned and main() returns: the interpreter exits and the
\* daemon listener thread ends with it
MainReturn ==
    /\ ui.pc = "returned"
    /\ UiStep([ui EXCEPT !.pc = "exited",
                         !.listener = "killed",
                         !.ended_by = "main"])

\* the user closes the window or interrupts the program
UserEnds ==
    /\ ui.pc \in {"start", "returned", "mainloop"}
    /\ UiStep([ui EXCEPT !.pc = "exited",
                         !.listener = "killed",
                         !.ended_by = "user"])

UiInit ==
    /\ keyDown = FALSE
    /\ holds = 0
    /\ nevents = 0
    /\ lq = <<>>
    /\ listenerAlive = TRUE
    /\ cfg = DefaultConfig
    /\ born = 0
    /\ act = [a \in Acts |-> NewAct]
    /\ tp = NoCall
    /\ \E mode \in Modes : ui = [NoUi EXCEPT !.mode = mode]

\* what the main thread does on its own
MainStep ==
    \/ LoadDone
    \/ CreateUi
    \/ ListenerStart
    \/ UiStart

UiNext ==
    \/ MainLogs
    \/ LoadDone
    \/ CreateUi
    \/ ListenerStart
    \/ UiStart
    \/ ListenerLogs
    \/ PollMessages
    \/ MainReturn
    \/ UserEnds

UiSpec == UiInit /\ [][UiNext]_vars

\* the main thread and the Tk timer run whenever they can
UiFairSpec ==
    /\ UiSpec
    /\ WF_vars(MainStep)
    /\ WF_vars(PollMessages)

(***************************************************************************)
(* Properties.                                                             *)
(***************************************************************************)
\* a left Ctrl press is waiting for the listener thread
PressWaiting == lq # <<>> /\ IsRecordKey(Head(lq))

\* the statements of record_audio
RecordPcs ==
    {"tempfile", "stream_start", "print_recording", "events_enter",
     "events_loop", "stream_stop", "stream_close", "combine"}

InRecordAudio(a) == act[a].pc \in RecordPcs

\* C1: in every reachable state at most one recording session is capturing
\* and at most one audio input stream is open.
C1_OneSessionOneStream ==
    /\ Cardinality({a \in Acts : Capturing(a)}) <= 1
    /\ Cardinality({a \in Acts : StreamOpen(a)}) <= 1

\* a session captures while another left Ctrl press is waiting
C1_Witness == \E a \in Acts : Capturing(a) /\ PressWaiting

\* C2: a record-key press that arrives as an auto-repeat while a session is
\* capturing starts no recording session, neither at once nor later.
C2_DuplicatePressStartsNothing ==
    \A a \in Acts :
        ~(act[a].startedBy.repeat /\ act[a].startedBy.phase = "capturing")

\* the key of the press that started call a is still held
HeldFor(a) == keyDown /\ holds = act[a].startedBy.hold

\* the release of the press that started call a is in the observer's queue
ReleaseQueued(a) ==
    \E i \in DOMAIN act[a].evq :
        /\ IsStopEvent(act[a].evq[i])
        /\ act[a].evq[i].hold = act[a].startedBy.hold

\* C3: a capturing session ends at the release that matches the press which
\* started it: once the observer loop runs, the key is still held or its
\* release is queued for the loop, and the release that ends the loop is the
\* one of the starting press.
C3_EndsAtMatchingRelease ==
    \A a \in Acts :
        /\ act[a].pc = "events_loop" => (HeldFor(a) \/ ReleaseQueued(a))
        /\ act[a].endedBy # 0 => act[a].endedBy = act[a].startedBy.hold

\* C4: the recording of one request never overlaps the transcription,
\* normalization or keystroke output of another.
C4_Serialized ==
    \A a, b \in Acts :
        a # b => ~((InRecordAudio(b) \/ StreamOpen(b)) /\ Processing(a))

\* a request is being processed while another left Ctrl press is waiting
C4_Witness == \E a \in Acts : Processing(a) /\ PressWaiting

\* C5: a record-key press that arrives while the previous request is being
\* transcribed, normalized or typed never starts a recording session.
C5_PressWhileProcessingStartsNothing ==
    \A a \in Acts : act[a].startedBy.phase # "processing"

\* call a is past record_audio
AfterRecord(a) ==
    act[a].pc \in {"check_path", "transcribe", "remove", "process", "type", "done"}

Has(seq, m) == \E i \in DOMAIN seq : seq[i] = m

\* C6: when a session ends with zero audio chunks, model.transcribe and
\* typewrite are never called for that request and the request ends with the
\* no-audio status.
C6_EmptyRecordingSkipsAdapter ==
    \A a \in Acts :
        (AfterRecord(a) /\ act[a].audio_chunks = <<>>) =>
            /\ act[a].pc \in {"check_path", "done"}
            /\ act[a].transcribed = 0
            /\ act[a].typed = <<>>
            /\ act[a].pc = "done" => Has(act[a].emitted, St("no_audio"))

\* a request ended without a single chunk
C6_Witness ==
    \E a \in Acts : act[a].pc = "done" /\ act[a].audio_chunks = <<>>

\* C7: a request types its normalized string exactly once when that string
\* is non-empty and types nothing when it is empty; nothing is typed before
\* the request reaches its output step.
C7_TypedOnceIffNonEmpty ==
    \A a \in Acts :
        LET normalized == process(act[a].text, cfg)
        IN IF act[a].pc = "done" /\ normalized # <<>>
           THEN act[a].typed = << normalized >>
           ELSE act[a].typed = <<>>

\* a request has typed its text
C7_Witness ==
    \E a \in Acts : act[a].pc = "done" /\ act[a].typed # <<>>

\* the stage a message belongs to
Stage(m) ==
    CASE m.msg = "pressed" -> 1
      [] m.msg \in {"recording", "audio_error", "recorded", "no_audio_recorded"} -> 2
      [] m.msg = "transcribing" -> 3
      [] OTHER -> 4

IsStatus(m) == m.ch = "status"

StatusMsgs(em) == [i \in DOMAIN SelectSeq(em, IsStatus) |-> SelectSeq(em, IsStatus)[i].msg]

IsPrefix(s, t) == Len(s) <= Len(t) /\ SubSeq(t, 1, Len(s)) = s

StatusOrders ==
    { <<"pressed", "transcribing", "ready">>,
      <<"pressed", "transcribing", "no_speech">>,
      <<"pressed", "no_audio">> }

\* C8: within a request no message of a later stage is sent before one of an
\* earlier stage, no message is sent twice on a channel (the audio callback's
\* error line is per chunk), the statuses follow press-detected,
\* transcribing, then ready, no-speech or no-audio, and a request that
\* returns has sent the capturing line and exactly one final status.
C8_StatusOrder ==
    \A a \in Acts :
        LET em == act[a].emitted
        IN /\ \A i, j \in DOMAIN em : i < j => Stage(em[i]) <= Stage(em[j])
           /\ \A i, j \in DOMAIN em :
                (i < j /\ em[i] = em[j]) => em[i].msg = "audio_error"
           /\ \E o \in StatusOrders : IsPrefix(StatusMsgs(em), o)
           /\ act[a].pc = "done" =>
                /\ StatusMsgs(em) \in StatusOrders
                /\ Has(em, Lg("recording"))

\* a request went through every stage and reported ready
C8_Witness ==
    \E a \in Acts : act[a].pc = "done" /\ Has(act[a].emitted, St("ready"))

\* a status other than press-detected and transcribing was sent by call a
FailureReported(a) ==
    \E i \in DOMAIN act[a].emitted :
        /\ IsStatus(act[a].emitted[i])
        /\ act[a].emitted[i].msg \notin {"pressed", "transcribing"}

\* C9: when opening or starting the audio stream fails, the failure is
\* reported as a status and the listener goes on handling presses.
C9_StreamFailureRecovered ==
    \A a \in Acts :
        act[a].failedAt = "stream" => (FailureReported(a) /\ listenerAlive)

\* C10: when model.transcribe fails, the recording is discarded, nothing is
\* typed, a status is reported and the listener goes on handling presses.
C10_TranscriptionFailureRecovered ==
    \A a \in Acts :
        act[a].failedAt = "transcribe" =>
            /\ ~act[a].tmpExists
            /\ act[a].typed = <<>>
            /\ FailureReported(a)
            /\ listenerAlive

(***************************************************************************)
(* The program under the scheduling its threads get: the listener thread   *)
(* keeps running on_activate, the stream start and the adapter return or   *)
(* raise, and a held key is released.                                      *)
(***************************************************************************)
Progress(a) ==
    \/ OnActivate(a)
    \/ CreateTemp(a)
    \/ StreamStart(a)
    \/ StreamStartFails(a)
    \/ PrintRecording(a)
    \/ EventsEnter(a)
    \/ EventsNext(a)
    \/ StreamStop(a)
    \/ StreamClose(a)
    \/ Combine(a)
    \/ CheckPath(a)
    \/ Transcribe(a)
    \/ TranscribeFails(a)
    \/ Remove(a)
    \/ Process(a)
    \/ TypeOut(a)
    \/ Return(a)

\* a step of the listener thread
ListenerStep ==
    \/ DispatchPress
    \/ DispatchOther
    \/ \E a \in Acts : Progress(a)

FairSpec ==
    /\ Spec
    /\ WF_vars(ListenerStep)
    /\ WF_vars(KeyRelease)

\* the keyboard of the model has used up its events with the key held
KeyboardExhausted == keyDown /\ nevents = MaxKeyEvents

\* the call has reported its final status and is about to return
FinalStatus(a) ==
    /\ act[a].pc = "done"
    /\ StatusMsgs(act[a].emitted) # <<>>
    /\ StatusMsgs(act[a].emitted)[Len(StatusMsgs(act[a].emitted))]
           \in {"ready", "no_speech", "no_audio"}

\* C11: with the key released in the end and the adapter returning or
\* failing, every call of on_activate started by a press reaches a final
\* status (ready, no speech or no audio) with the listener alive to take the
\* next press.
C11_EventuallyFinalStatus ==
    \A a \in Acts :
        (act[a].pc = "on_activate")
            ~> ((FinalStatus(a) /\ listenerAlive) \/ KeyboardExhausted)

\* C12: the recording written to the file is the concatenation of exactly
\* the buffers the audio callback was given during the session, in the
\* order they were given.
C12_RecordingIsDeliveredInOrder ==
    \A a \in Acts :
        /\ act[a].audio_chunks = act[a].delivered
        /\ AfterRecord(a) =>
             act[a].recording = [i \in 1 .. Len(act[a].delivered) |-> i]

\* a recording of two buffers was written
C12_Witness ==
    \E a \in Acts : AfterRecord(a) /\ Len(act[a].recording) >= 2

\* C13: once stream.stop() has returned no buffer is delivered or appended
\* any more, so what the concatenation reads is every buffer delivered.
C13_NoAppendAfterStop ==
    [][\A a \in Acts :
         (act[a].stream \in {"stopped", "closed"} /\ act'[a].pc # "returned") =>
             /\ act'[a].audio_chunks = act[a].audio_chunks
             /\ act'[a].delivered = act[a].delivered
             /\ (act[a].pc = "combine" /\ act'[a].pc = "check_path") =>
                  act'[a].recording = Concatenate(act[a].delivered)]_vars

\* a stream was stopped with a buffer collected and more audio to come
C13_Witness ==
    \E a \in Acts :
        /\ act[a].stream = "stopped"
        /\ act[a].audio_chunks # <<>>
        /\ Len(act[a].delivered) < MaxChunks

\* the attributes process read all have the value they have in config
ReadFrom(config) ==
    \A i \in DOMAIN tp.used : tp.used[i].value = config[tp.used[i].attr]

HelloWorld == <<"h","e","l","l","o"," ","w","o","r","l","d">>
UmThisIsATest == <<" "," ","u","m"," ","t","h","i","s"," ","i","s"," ","a"," ","t","e","s","t"," "," ">>
UhmHello == <<"u","h","m"," ","h","e","l","l","o">>
GooeyApp == <<"g","o","o","e","y"," ","a","p","p">>

\* the stages in the order the claim gives them
StageOrder == <<"strip", "fillers", "replace", "capitalize", "punctuate">>

\* the call has returned from its first run under a configuration with both
\* flags set
ReturnedFormatted ==
    tp.pc = "done" /\ tp.run = 1 /\ cfg.capitalize_first /\ cfg.add_punctuation

\* C15: process runs trim, filler removal, word replacement, capitalize-first
\* and final punctuation in this order, each on the output of the one before,
\* and returns the last output; with both flags set "hello world" gives
\* "Hello world." and "  um this is a test  " gives "This is a test."; a
\* replacement that produces a filler is not removed and a replaced first
\* word is capitalized.
C15_StagesInOrder ==
    /\ \A i \in DOMAIN tp.trace :
         /\ i <= Len(StageOrder)
         /\ tp.trace[i].stage = StageOrder[i]
         /\ tp.trace[i].in = IF i = 1 THEN tp.arg ELSE tp.trace[i - 1].out
    /\ tp.pc = "done" =>
         /\ Len(tp.trace) \in {1, Len(StageOrder)}
         /\ Len(tp.trace) = 1 => tp.trace[1].out = <<>>
         /\ tp.result = tp.trace[Len(tp.trace)].out
    /\ (ReturnedFormatted /\ tp.arg = HelloWorld) =>
         tp.result = <<"H","e","l","l","o"," ","w","o","r","l","d",".">>
    /\ (ReturnedFormatted /\ tp.arg = UmThisIsATest) =>
         tp.result = <<"T","h","i","s"," ","i","s"," ","a"," ","t","e","s","t",".">>
    /\ (ReturnedFormatted /\ tp.arg = UhmHello /\ cfg = ReplaceConfig) =>
         tp.result = <<"U","m"," ","h","e","l","l","o",".">>
    /\ (ReturnedFormatted /\ tp.arg = GooeyApp /\ cfg = DefaultConfig) =>
         tp.result = <<"G","u","i"," ","a","p","p",".">>

\* "  um this is a test  " has gone through the five stages
C15_Witness ==
    /\ ReturnedFormatted
    /\ tp.arg = UmThisIsATest
    /\ Len(tp.trace) = Len(StageOrder)
    /\ tp.result = <<"T","h","i","s"," ","i","s"," ","a"," ","t","e","s","t",".">>

\* the words of s: its maximal runs of word characters, in order
RECURSIVE WordsFrom(_, _, _)
WordsFrom(s, i, cur) ==
    LET done == IF cur = <<>> THEN <<>> ELSE <<cur>>
    IN IF i > Len(s) THEN done
       ELSE IF IsWordChar(s[i]) THEN WordsFrom(s, i + 1, Append(cur, s[i]))
       ELSE done \o WordsFrom(s, i + 1, <<>>)

Words(s) == WordsFrom(s, 1, <<>>)

IsSingleWord(s) == s # <<>> /\ \A i \in DOMAIN s : IsWordChar(s[i])

\* w is one of the configured fillers, whatever the case of its letters
IsFiller(w) ==
    \E k \in DOMAIN cfg.filler_words : LowerStr(w) = LowerStr(cfg.filler_words[k])

NotFiller(w) == ~IsFiller(w)

\* C16: filler removal deletes every whole-word occurrence of a filler,
\* whatever its case, and nothing else: when the fillers are single words,
\* the words left are the words of the input that are not fillers, in order
\* ("likely" stays when "like" is a filler).
C16_FillersRemovedWholeWord ==
    \A i \in DOMAIN tp.trace :
        (/\ tp.trace[i].stage = "fillers"
         /\ \A k \in DOMAIN cfg.filler_words : IsSingleWord(cfg.filler_words[k]))
            => Words(tp.trace[i].out) = SelectSeq(Words(tp.trace[i].in), NotFiller)

\* the texts made of configured fillers only, separated by single spaces
FillerTexts ==
    {Join(ws) : ws \in UNION {[1 .. k -> Range(cfg.filler_words)] : k \in 1 .. MaxWords}}

\* C17: when the trimmed argument consists of configured fillers only,
\* process returns the empty string: no capital and no "." are added.
C17_OnlyFillersGivesEmpty ==
    (tp.pc = "done" /\ Strip(tp.arg) \in FillerTexts) => tp.result = <<>>

\* the call is the second of two runs of the app's process and has returned
SecondRunDone == tp.variant = "app" /\ tp.pc = "done" /\ tp.run = 2

\* C18 as stated: process is idempotent, for every text and configuration
\* process(process(t)) = process(t).
C18_Idempotent ==
    SecondRunDone => tp.result = tp.first

\* the second run's trim, filler removal and replacement changed nothing
SecondRunClean ==
    LET k == IF Len(tp.trace) < 3 THEN Len(tp.trace) ELSE 3
    IN tp.trace[k].out = tp.arg

\* C18 amended: when trim, filler removal and replacement leave process(t)
\* as it is, process(process(t)) = process(t): the formatting stages do not
\* capitalize again or append a second ".".
C18_IdempotentOnceClean ==
    (SecondRunDone /\ SecondRunClean) => tp.result = tp.first

\* a text that got its "." in the first run has been through the second
C18_Witness ==
    /\ SecondRunDone
    /\ SecondRunClean
    /\ cfg.add_punctuation
    /\ Len(tp.trace) = Len(StageOrder)
    /\ tp.first = <<"H","e","l","l","o"," ","w","o","r","l","d",".">>

\* source occurs in s at index i, whatever the case of the letters, with a
\* non-word character or a string edge on both sides
BoundedAt(s, i, source) ==
    /\ i + Len(source) - 1 <= Len(s)
    /\ LowerStr(SubSeq(s, i, i + Len(source) - 1)) = LowerStr(source)
    /\ ~WordAt(s, i - 1)
    /\ ~WordAt(s, i + Len(source))

\* s with the bounded occurrences of source replaced by target, from the left
RECURSIVE SubstituteFrom(_, _, _, _)
SubstituteFrom(s, i, source, target) ==
    IF i > Len(s) THEN <<>>
    ELSE IF BoundedAt(s, i, source)
         THEN target \o SubstituteFrom(s, i + Len(source), source, target)
         ELSE <<s[i]>> \o SubstituteFrom(s, i + 1, source, target)

\* the pairs substituted one after the other
RECURSIVE SubstituteAll(_, _, _)
SubstituteAll(s, pairs, k) ==
    IF k > Len(pairs) THEN s
    ELSE SubstituteAll(SubstituteFrom(s, 1, pairs[k][1], pairs[k][2]), pairs, k + 1)

\* C19: word replacement substitutes, for every pair, every occurrence of
\* the source, whatever its case, that has a non-word character or a string
\* edge on both sides, and leaves the occurrences inside a larger word as
\* they are ("cant" is replaced in "I cant do it", "scant" is not changed).
C19_ReplacementsAtBoundaries ==
    \A i \in DOMAIN tp.trace :
        tp.trace[i].stage = "replace" =>
            tp.trace[i].out = SubstituteAll(tp.trace[i].in, cfg.replacements, 1)

\* t is s with one "." after it
WithFullStop(s, t) ==
    /\ Len(t) = Len(s) + 1
    /\ SubSeq(t, 1, Len(s)) = s
    /\ t[Len(t)] = "."

\* the punctuation stage has to add the full stop to s
NeedsFullStop(s) ==
    /\ cfg.add_punctuation
    /\ s # <<>>
    /\ s[Len(s)] \notin {".", "!", "?"}

\* C20: the final stage appends exactly one "." when add_punctuation is set
\* and the text is not empty and does not end in ".", "!" or "?"; in every
\* other case it returns the text as it is.
C20_FinalPunctuation ==
    \A i \in DOMAIN tp.trace :
        tp.trace[i].stage = "punctuate" =>
            IF NeedsFullStop(tp.trace[i].in)
            THEN WithFullStop(tp.trace[i].in, tp.trace[i].out)
            ELSE tp.trace[i].out = tp.trace[i].in

\* the final stage has appended the "." to a text that did not end in one
C20_Witness ==
    \E i \in DOMAIN tp.trace :
        /\ tp.trace[i].stage = "punctuate"
        /\ NeedsFullStop(tp.trace[i].in)
        /\ tp.trace[i].out = tp.trace[i].in \o <<".">>

\* C21: a release of left Ctrl while no call of on_activate is running has
\* no effect: no stream, message, transcription or keystroke comes of it,
\* nothing is handed to the listener's callback and the program stays idle.
C21_ReleaseWhileIdleIgnored ==
    [][(Phase = "idle" /\ keyDown /\ ~keyDown') =>
          /\ act' = act
          /\ lq' = lq
          /\ born' = born
          /\ listenerAlive' = listenerAlive
          /\ Phase' = "idle"]_vars

\* the first press is still waiting for the listener and the key is up again
C21_Witness ==
    /\ holds = 1
    /\ ~keyDown
    /\ born = 0
    /\ lq # <<>>
    /\ Phase = "idle"

\* the log display of the interface in use: the terminal, or the text widget
LogDisplay == IF ui.mode = "terminal" THEN ui.stdout ELSE ui.log_display

\* the n-th message sent through log_message is on the log display
Displayed(n) == \E i \in DOMAIN LogDisplay : LogDisplay[i].n = n

\* C22: every message sent through log_message reaches the log display of
\* the interface in use, once and in the order of sending, as long as the
\* program runs.
C22_LoggedIsDisplayed ==
    /\ [](IsPrefix(LogDisplay, Logged))
    /\ \A n \in 1 .. MaxMessages :
         (Len(Logged) >= n) ~> (Displayed(n) \/ ~Alive)

\* filler removal that collapses the spaces and drops a leading space after
\* every phrase, so that the next phrase sees the shortened text
RECURSIVE RemoveFillersCollapsing(_, _, _)
RemoveFillersCollapsing(text, fillers, k) ==
    IF k > Len(fillers) THEN text
    ELSE RemoveFillersCollapsing(
             LStrip(CollapseSpaces(RemoveOneFiller(text, fillers[k]))), fillers, k + 1)

KindLikeOf == <<"k","i","n","d"," ","l","i","k","e"," ","o","f">>

\* C23: the spaces are collapsed after each filler phrase's removal and
\* before the next phrase is looked for: the filler stage returns what
\* phrase-by-phrase removal with collapsing in between returns, and
\* "kind like of" becomes empty under the fillers like, kind of.
C23_CollapseAfterEachPhrase ==
    \A i \in DOMAIN tp.trace :
        (tp.variant = "app" /\ tp.trace[i].stage = "fillers") =>
            /\ tp.trace[i].out =
                 Strip(FixPunct(CollapseSpaces(
                     RemoveFillersCollapsing(tp.trace[i].in, cfg.filler_words, 1)), 1))
            /\ (tp.trace[i].in = KindLikeOf /\ cfg = DefaultConfig)
                  => tp.trace[i].out = <<>>

\* the pairs substituted one after the other, each target taken literally
RECURSIVE LiteralAll(_, _, _)
LiteralAll(s, pairs, k) ==
    IF k > Len(pairs) THEN s
    ELSE LiteralAll(ReSub(s, pairs[k][1],
                          StrReplace(pairs[k][2], <<Backslash>>, <<Backslash, Backslash>>)),
                    pairs, k + 1)

\* C24: word replacement inserts every target as the literal string it is:
\* no backslash or group reference of the target is interpreted and the
\* replacement stage never raises.
C24_TargetIsLiteral ==
    /\ tp.pc # "raised"
    /\ \A i \in DOMAIN tp.trace :
         tp.trace[i].stage = "replace" =>
             tp.trace[i].out = LiteralAll(tp.trace[i].in, cfg.replacements, 1)

\* the entries of the value reload_config has read
EntriesRead == Split(tp.env, ",")

\* the entry has the form source=target
HasForm(e) == HasEquals(e)

Source(e) == Strip(SplitOnce(e)[1])

Target(e) == Strip(SplitOnce(e)[2])

\* reload_config has gone through WORD_REPLACEMENTS and returned
Loaded == tp.reload = "idle" /\ tp.env # <<>>

\* C25: after the load, every entry of the form source=target is in the
\* table (the last one for its source), and every pair of the table is such
\* an entry: an entry without the form is skipped, does not end the load and
\* changes no other entry.
C25_MalformedEntrySkipped ==
    Loaded =>
        /\ \A i \in DOMAIN EntriesRead :
             HasForm(EntriesRead[i]) =>
                 \E k \in DOMAIN cfg.replacements :
                     /\ cfg.replacements[k][1] = Source(EntriesRead[i])
                     /\ (\A j \in DOMAIN EntriesRead :
                            (j > i /\ HasForm(EntriesRead[j]))
                                => Source(EntriesRead[j]) # Source(EntriesRead[i]))
                          => cfg.replacements[k][2] = Target(EntriesRead[i])
        /\ \A k \in DOMAIN cfg.replacements :
             \E i \in DOMAIN EntriesRead :
                 /\ HasForm(EntriesRead[i])
                 /\ cfg.replacements[k] = <<Source(EntriesRead[i]), Target(EntriesRead[i])>>
        /\ \A k, h \in DOMAIN cfg.replacements :
             cfg.replacements[k][1] = cfg.replacements[h][1] => k = h

\* a=b , bad , c=d has been loaded as a=b and c=d
C25_Witness ==
    /\ Loaded
    /\ tp.env = JoinWith(<< <<"a","=","b">>, <<"b","a","d">>,
                            <<" ","c"," ","="," ","d"," ">> >>, ",")
    /\ cfg.replacements = << << <<"a">>, <<"b">> >>, << <<"c">>, <<"d">> >> >>

\* C26: in terminal mode the program keeps running after start() has
\* returned and handles presses until the user ends it: the process never
\* ends on its own.
C26_TerminalRunsUntilUserEnds ==
    (ui.mode = "terminal" /\ ~Alive) => ui.ended_by = "user"

\* C27: when a request has reported its final status, the temporary audio
\* file that record_audio created for it is no longer on disk, whether the
\* recording was transcribed or was empty.
C27_TempFileDeletedAtFinalStatus ==
    \A a \in Acts : FinalStatus(a) => ~act[a].tmpExists

\* the call has sent a status through update_status
HasStatus(a) == StatusMsgs(act[a].emitted) # <<>>

\* the indicator after the last update_status of the call
Indicator(a) ==
    update_status(StatusText(StatusMsgs(act[a].emitted)[Len(StatusMsgs(act[a].emitted))]))

\* C28: the status indicator follows the request: Recording from the
\* press-detected status while the recording session runs, Processing
\* while the recording is transcribed, Idle once the final status is out.
C28_IndicatorTracksPhase ==
    \A a \in Acts :
        HasStatus(a) =>
            /\ act[a].pc \in RecordPcs \ {"stream_stop", "stream_close", "combine"}
                   => Indicator(a) = "Recording"
            /\ act[a].pc = "transcribe" => Indicator(a) = "Processing"
            /\ act[a].pc = "done" => Indicator(a) = "Idle"

====
